---- MODULE Spec2Model ----
(***************************************************************************)
(* GPX map generator (src/src/app.py; src/src/run_app.py holds the same    *)
(* create_map, compute_gpx_distance and cleanup_old_maps with relative     *)
(* paths).  generate_map fetches the sheet rows, create_map walks them     *)
(* and draws one polyline per GPX segment, the map is saved under a        *)
(* timestamped name and cleanup_old_maps keeps the newest maps.            *)
(*                                                                         *)
(* Numbers.  Python floats are modelled in fixed point with three          *)
(* decimals: the float x is the integer 1000 * x.  Track points lie on a   *)
(* grid whose distances are whole numbers of metres, so every sum and the  *)
(* division by 1000 are exact in this representation.                      *)
(***************************************************************************)
EXTENDS Integers, Sequences, FiniteSets, TLC

VARIABLES
    gpx_files,              \* GPX_FOLDER: file name -> file content (names present only)
    folium_validates,       \* the installed folium rejects an empty location list
    maps_dir_exists,        \* STATIC_MAPS_FOLDER exists
    maps_dir,               \* STATIC_MAPS_FOLDER: set of directory entries
    now,                    \* the clock, in seconds
    pc,                     \* where the running invocation stands
    df,                     \* create_map: the rows of the sheet snapshot
    i,                      \* create_map: index of the next row of df.iterrows()
    walked_distance,        \* create_map: distance of the row processed last
    total_walked_distance,  \* create_map: running total
    m,                      \* create_map: the folium map under construction
    exc,                    \* the exception in flight, "" when none
    map_filename,           \* generate_map: name of the artifact being written
    keep_latest,            \* cleanup_old_maps: its parameter
    result,                 \* what the last generate_map invocation returned
    store_at_call           \* history: maps_dir when the running operation was entered

vars == <<gpx_files, folium_validates, maps_dir_exists, maps_dir, now, pc, df, i,
          walked_distance, total_walked_distance, m, exc, map_filename,
          keep_latest, result, store_at_call>>

(***************************************************************************)
(* Bounds of the model.                                                    *)
(***************************************************************************)
MaxRecords == 3        \* rows of a data frame handed to create_map
MaxSheetRows == 2      \* rows of a sheet snapshot fetched by generate_map
MaxTracks == 2         \* tracks of a generated GPX file
MaxSegments == 2       \* segments of a generated track
MaxArtifacts == 7      \* .html entries of a generated map store
MaxTie == 2            \* entries of a generated map store that share a ctime
MaxTime == 2           \* the clock stops advancing here
GridUnit == 864        \* metres per grid step of the track points

(***************************************************************************)
(* Floats in fixed point.                                                  *)
(***************************************************************************)
\* the float of a whole number n
Float(n) == n * 1000

\* x / n for a float x and a whole number n
FloatDiv(x, n) == x \div n

\* the two digits of 0..99
TwoDigits(n) == IF n < 10 THEN "0" \o ToString(n) ELSE ToString(n)

\* f"{x:.2f}" for x >= 0: round to the nearest hundredth, print two decimals
Format2f(x) ==
    LET hundredths == (x + 5) \div 10
    IN  ToString(hundredths \div 100) \o "." \o TwoDigits(hundredths % 100)

\* round(x, 2) for x >= 0
Round2(x) == ((x + 5) \div 10) * 10

(***************************************************************************)
(* GPX documents as gpxpy parses them: tracks -> segments -> points.       *)
(***************************************************************************)
Pt(lat, lon) == [latitude |-> lat, longitude |-> lon]

RECURSIVE ISqrt(_, _)
ISqrt(n, r) == IF (r + 1) * (r + 1) > n THEN r ELSE ISqrt(n, r + 1)

Abs(n) == IF n < 0 THEN 0 - n ELSE n

\* gpxpy's 2D distance of two points in metres (a float); exact on the grid
Distance2d(p, q) ==
    LET dlat == Abs(p.latitude - q.latitude)
        dlon == Abs(p.longitude - q.longitude)
    IN  Float(GridUnit * ISqrt(dlat * dlat + dlon * dlon, 0))

\* segment.length_2d(): the distances of consecutive points, summed
RECURSIVE Length2dFrom(_, _, _)
Length2dFrom(points, k, acc) ==
    IF k >= Len(points) THEN acc
    ELSE Length2dFrom(points, k + 1, acc + Distance2d(points[k], points[k + 1]))

Length2d(segment) == Length2dFrom(segment.points, 1, 0)

\* faulty variant: a malformed file parses as a document without tracks
GpxParseLenient(content) == [raised |-> FALSE, exc |-> "", tracks |-> content.tracks]

\* gpxpy.parse of a file's content
GpxParse(content) ==
    IF content.wellformed
    THEN [raised |-> FALSE, exc |-> "", tracks |-> content.tracks]
    ELSE [raised |-> TRUE, exc |-> "GPXXMLSyntaxException", tracks |-> <<>>]

(***************************************************************************)
(* compute_gpx_distance                                                    *)
(***************************************************************************)
\* for segment in track.segments: total_distance += segment.length_2d()
RECURSIVE SegmentsLoop(_, _, _)
SegmentsLoop(segments, k, total_distance) ==
    IF k > Len(segments) THEN total_distance
    ELSE SegmentsLoop(segments, k + 1, total_distance + Length2d(segments[k]))

\* for track in gpx.tracks: ...
RECURSIVE TracksLoop(_, _, _)
TracksLoop(tracks, k, total_distance) ==
    IF k > Len(tracks) THEN total_distance
    ELSE TracksLoop(tracks, k + 1, SegmentsLoop(tracks[k].segments, 1, total_distance))

\* faulty variant: only the first track is measured
DistanceOfFirstTrack(tracks) ==
    IF tracks = <<>> THEN 0 ELSE SegmentsLoop(tracks[1].segments, 1, 0)

\* what the opened file contributes to total_distance (metres)
DistanceOfParsed(tracks) == TracksLoop(tracks, 1, 0)

\* faulty variant: FileNotFoundError is not caught
ComputeGpxDistanceNoCatch(file_path, files) ==
    IF file_path \notin DOMAIN files
    THEN [raised |-> TRUE, exc |-> "FileNotFoundError", value |-> 0]
    ELSE LET gpx == GpxParse(files[file_path])
         IN  IF gpx.raised
             THEN [raised |-> TRUE, exc |-> gpx.exc, value |-> 0]
             ELSE [raised |-> FALSE, exc |-> "",
                   value |-> FloatDiv(DistanceOfParsed(gpx.tracks), 1000)]

\* the function returns a distance in km or lets a parse error through
ComputeGpxDistance(file_path, files) ==
    IF file_path \notin DOMAIN files
    THEN \* FileNotFoundError is caught: total_distance is still 0.0
         [raised |-> FALSE, exc |-> "", value |-> FloatDiv(0, 1000)]
    ELSE LET gpx == GpxParse(files[file_path])
         IN  IF gpx.raised
             THEN [raised |-> TRUE, exc |-> gpx.exc, value |-> 0]
             ELSE [raised |-> FALSE, exc |-> "",
                   value |-> FloatDiv(DistanceOfParsed(gpx.tracks), 1000)]

(***************************************************************************)
(* create_map                                                              *)
(***************************************************************************)
\* row.get(key, default)
RowGet(row, key, default) == IF key \in DOMAIN row THEN row[key] ELSE default

\* os.path.join(gpx_folder, f"{route_id}.gpx") with route_id = f'route{id}'
FilePath(row) == ("route" \o ToString(row["GPX file ID"])) \o ".gpx"

\* f"{date}: {comment} ({walked_distance:.2f} km)"
Tooltip(date, comment, walked) ==
    date \o ": " \o comment \o " (" \o Format2f(walked) \o " km)"

\* faulty variant: the tooltip shows the length of its own segment
TooltipDistancePerSegment(walked, segment) == FloatDiv(Length2d(segment), 1000)

\* the distance the tooltip of a polyline shows: the row's walked_distance
TooltipDistance(walked, segment) == walked

\* folium.PolyLine(points, color=route_color, weight=4, opacity=0.9, tooltip=...)
PolyLine(points, tooltip) ==
    [locations |-> points, color |-> "blue", weight |-> 4, opacity |-> 900,
     tooltip |-> tooltip]

\* folium.PolyLine validates its locations in the versions that do so
PolyLineRaises(points, validates) == validates /\ points = <<>>

\* [(point.latitude, point.longitude) for point in segment.points]
PointsOf(segment) ==
    [k \in 1..Len(segment.points) |->
        <<segment.points[k].latitude, segment.points[k].longitude>>]

\* for segment in track.segments: PolyLine(...).add_to(m); stops at a raise
RECURSIVE DrawSegments(_, _, _, _, _)
DrawSegments(segments, k, tip, validates, acc) ==
    IF acc.raised \/ k > Len(segments) THEN acc
    ELSE LET points == PointsOf(segments[k])
         IN  IF PolyLineRaises(points, validates)
             THEN [acc EXCEPT !.raised = TRUE, !.exc = "ValueError"]
             ELSE DrawSegments(segments, k + 1, tip, validates,
                     [acc EXCEPT !.children =
                         Append(@, PolyLine(points,
                             Tooltip(tip.date, tip.comment,
                                 TooltipDistance(tip.walked, segments[k]))))])

\* for track in gpx.tracks: ...
RECURSIVE DrawTracks(_, _, _, _, _)
DrawTracks(tracks, k, tip, validates, acc) ==
    IF acc.raised \/ k > Len(tracks) THEN acc
    ELSE DrawTracks(tracks, k + 1, tip, validates,
            DrawSegments(tracks[k].segments, 1, tip, validates, acc))

\* faulty variant: the second pass draws the first track only
DrawRowFirstTrack(file_path, files, tip, validates, children) ==
    LET start == [raised |-> FALSE, exc |-> "", children |-> children]
    IN  IF file_path \notin DOMAIN files
        THEN start
        ELSE LET gpx == GpxParse(files[file_path])
             IN  IF gpx.raised
                 THEN [start EXCEPT !.raised = TRUE, !.exc = gpx.exc]
                 ELSE DrawTracks(SubSeq(gpx.tracks, 1, 1), 1, tip, validates, start)

\* the second open of the row's file: its polylines go to the map
DrawRow(file_path, files, tip, validates, children) ==
    LET start == [raised |-> FALSE, exc |-> "", children |-> children]
    IN  IF file_path \notin DOMAIN files
        THEN start      \* FileNotFoundError is caught and printed
        ELSE LET gpx == GpxParse(files[file_path])
             IN  IF gpx.raised
                 THEN [start EXCEPT !.raised = TRUE, !.exc = gpx.exc]
                 ELSE DrawTracks(gpx.tracks, 1, tip, validates, start)

\* faulty variant: the total is overwritten, not accumulated
AddWalkedOverwrite(total, walked) == walked

\* total_walked_distance += walked_distance
AddWalked(total, walked) == total + walked

\* folium.Map(location=[40.7831, -73.9712], zoom_start=12, tiles=...)
NewMap == [location |-> <<40783, -73971>>, zoom_start |-> 12,
           tiles |-> "CartoDB positron", children |-> <<>>]

\* one pass of the loop over df.iterrows()
CreateMapRow ==
    /\ pc = "create_map"
    /\ i <= Len(df)
    /\ LET row == df[i]
           date == row["Date (walk)"]
           comment == RowGet(row, "Comments", "")
           file_path == FilePath(row)
           dist == ComputeGpxDistance(file_path, gpx_files)
           tip == [date |-> date, comment |-> comment, walked |-> dist.value]
           drawn == DrawRow(file_path, gpx_files, tip, folium_validates, m.children)
       IN  IF dist.raised
           THEN /\ pc' = "except"
                /\ exc' = dist.exc
                /\ UNCHANGED <<i, walked_distance, total_walked_distance, m>>
           ELSE /\ walked_distance' = dist.value
                /\ total_walked_distance' = AddWalked(total_walked_distance, dist.value)
                /\ m' = [m EXCEPT !.children = drawn.children]
                /\ IF drawn.raised
                   THEN pc' = "except" /\ exc' = drawn.exc /\ i' = i
                   ELSE pc' = "create_map" /\ exc' = "" /\ i' = i + 1
    /\ UNCHANGED <<gpx_files, folium_validates, maps_dir_exists, maps_dir, now, df,
                   map_filename, keep_latest, result, store_at_call>>

\* return m, total_walked_distance
CreateMapReturn ==
    /\ pc = "create_map"
    /\ i > Len(df)
    /\ pc' = "save"
    /\ UNCHANGED <<gpx_files, folium_validates, maps_dir_exists, maps_dir, now, df, i,
                   walked_distance, total_walked_distance, m, exc, map_filename,
                   keep_latest, result, store_at_call>>

(***************************************************************************)
(* cleanup_old_maps                                                        *)
(***************************************************************************)
KeepLatestDefault == 5

\* the name of a directory entry is its stem and its extension
FileName(name) == name.stem \o name.ext

\* f.endswith('.html')
EndsWithHtml(name) == name.ext = ".html"

\* faulty variant: the sort without reverse=True
OlderFirst(a, b) == a.ctime <= b.ctime

\* does entry a come before entry b under key=getctime, reverse=True
NewerFirst(a, b) == a.ctime >= b.ctime

\* sorted(listing, key=getctime, reverse=True): os.listdir returns the entries
\* in any order and the sort is stable, so entries of equal ctime come out in
\* any order; every outcome is in this set
RECURSIVE SortedListings(_)
SortedListings(entries) ==
    IF entries = {} THEN {<<>>}
    ELSE LET first == {e \in entries : \A f \in entries : NewerFirst(e, f)}
         IN  UNION {{<<e>> \o rest : rest \in SortedListings(entries \ {e})} : e \in first}

\* faulty variant: the slice starts one entry late
SliceFromNext(files, keep) == SubSeq(files, keep + 2, Len(files))

\* files[keep_latest:]
SliceFrom(files, keep) == SubSeq(files, keep + 1, Len(files))

\* os.remove(path): raises on an entry that is not a removable regular file
RemoveRaises(entry) == entry.kind # "file"

\* for old_file in files[keep_latest:]: os.remove(...); stops at a raise
RECURSIVE RemoveLoop(_, _, _)
RemoveLoop(old_files, k, dir) ==
    IF k > Len(old_files) THEN [raised |-> FALSE, exc |-> "", dir |-> dir]
    ELSE IF RemoveRaises(old_files[k])
         THEN [raised |-> TRUE, exc |-> "OSError", dir |-> dir]
         ELSE RemoveLoop(old_files, k + 1, dir \ {old_files[k]})

CleanupOldMaps ==
    /\ pc = "cleanup"
    /\ IF maps_dir_exists
       THEN \E files \in SortedListings({e \in maps_dir : EndsWithHtml(e.name)}) :
               LET removed == RemoveLoop(SliceFrom(files, keep_latest), 1, maps_dir)
               IN  /\ maps_dir' = removed.dir
                   /\ IF removed.raised
                      THEN pc' = "except" /\ exc' = removed.exc
                      ELSE pc' = "return" /\ exc' = ""
       ELSE pc' = "return" /\ exc' = "" /\ maps_dir' = maps_dir
    /\ UNCHANGED <<gpx_files, folium_validates, maps_dir_exists, now, df, i,
                   walked_distance, total_walked_distance, m, map_filename,
                   keep_latest, result, store_at_call>>

(***************************************************************************)
(* generate_map                                                            *)
(***************************************************************************)
NoResult == [returned |-> "none", success |-> FALSE, error |-> "", map_file |-> "",
             total_distance |-> 0]

\* {'success': False, 'error': ...}
Failure(error) == [returned |-> "dict", success |-> FALSE, error |-> error,
                   map_file |-> "", total_distance |-> 0]

\* {'success': True, 'map_file': ..., 'total_distance': round(total, 2), ...}
Success(file, total) == [returned |-> "dict", success |-> TRUE, error |-> "",
                         map_file |-> file, total_distance |-> Round2(total)]

\* an exception that leaves generate_map
Propagated(error) == [returned |-> "raise", success |-> FALSE, error |-> error,
                      map_file |-> "", total_distance |-> 0]

\* f'gpx_map_{timestamp}.html', the timestamp to the second
MapFilename(t) == [stem |-> "gpx_map_" \o ToString(t), ext |-> ".html"]

\* m.save(map_path): a new entry, or the entry of that name written again
SavedDir(dir, name, t) ==
    {e \in dir : e.name # name} \cup {[name |-> name, ctime |-> t, kind |-> "file"]}

\* m.save(map_path) cannot write when the folder is missing
SaveRaises(exists) == ~exists

\* the locals of a finished invocation are gone
ClearLocals ==
    /\ df' = <<>>
    /\ i' = 0
    /\ walked_distance' = 0
    /\ total_walked_distance' = 0
    /\ m' = [location |-> <<>>, zoom_start |-> 0, tiles |-> "", children |-> <<>>]
    /\ exc' = ""
    /\ map_filename' = ""
    /\ keep_latest' = 0

\* up to the call of create_map; sheets are the outcomes of get_spreadsheet_data
GenerateMapCall(sheets) ==
    /\ pc = "idle"
    /\ store_at_call' = maps_dir
    /\ \E sheet_url_set \in BOOLEAN, credentials_set \in BOOLEAN, sheet \in sheets :
          IF ~sheet_url_set
          THEN /\ result' = Failure("SHEET_URL environment variable not set")
               /\ pc' = "idle"
               /\ ClearLocals
          ELSE IF ~credentials_set
          THEN \* GPXMapGenerator() stands before the try
               /\ result' = Propagated("ValueError")
               /\ pc' = "idle"
               /\ ClearLocals
          ELSE IF sheet.raised
          THEN /\ pc' = "except"
               /\ exc' = sheet.exc
               /\ UNCHANGED <<df, i, walked_distance, total_walked_distance, m,
                              map_filename, keep_latest, result>>
          ELSE /\ pc' = "create_map"
               /\ df' = sheet.df
               /\ i' = 1
               /\ m' = NewMap
               /\ total_walked_distance' = 0
               /\ UNCHANGED <<walked_distance, exc, map_filename, keep_latest, result>>
    /\ UNCHANGED <<gpx_files, folium_validates, maps_dir_exists, maps_dir, now>>

\* timestamp, map_filename, m.save(map_path), and the call of cleanup_old_maps()
SaveMap ==
    /\ pc = "save"
    /\ map_filename' = MapFilename(now)
    /\ IF SaveRaises(maps_dir_exists)
       THEN pc' = "except" /\ exc' = "FileNotFoundError"
            /\ UNCHANGED <<maps_dir, keep_latest>>
       ELSE pc' = "cleanup" /\ exc' = ""
            /\ maps_dir' = SavedDir(maps_dir, MapFilename(now), now)
            /\ keep_latest' = KeepLatestDefault
    /\ UNCHANGED <<gpx_files, folium_validates, maps_dir_exists, now, df, i,
                   walked_distance, total_walked_distance, m, result, store_at_call>>

\* return {'success': True, ...}
GenerateMapReturn ==
    /\ pc = "return"
    /\ result' = Success(FileName(map_filename), total_walked_distance)
    /\ pc' = "idle"
    /\ ClearLocals
    /\ UNCHANGED <<gpx_files, folium_validates, maps_dir_exists, maps_dir, now,
                   store_at_call>>

\* except Exception as e: return {'success': False, 'error': str(e)}
GenerateMapExcept ==
    /\ pc = "except"
    /\ result' = Failure(exc)
    /\ pc' = "idle"
    /\ ClearLocals
    /\ UNCHANGED <<gpx_files, folium_validates, maps_dir_exists, maps_dir, now,
                   store_at_call>>

\* time passes
Tick ==
    /\ now < MaxTime
    /\ now' = now + 1
    /\ UNCHANGED <<gpx_files, folium_validates, maps_dir_exists, maps_dir, pc, df, i,
                   walked_distance, total_walked_distance, m, exc, map_filename,
                   keep_latest, result, store_at_call>>

(***************************************************************************)
(* Inputs: GPX files and data frames.                                      *)
(***************************************************************************)
SeqUpTo(S, n) == UNION {[1..k -> S] : k \in 0..n}

P0 == Pt(0, 0)
P1 == Pt(3, 0)
P2 == Pt(3, 4)

Seg(points) == [points |-> points]
Trk(segments) == [segments |-> segments]
Gpx(tracks) == [wellformed |-> TRUE, tracks |-> tracks]
Malformed == [wellformed |-> FALSE, tracks |-> <<>>]

\* the segments generated files are made of
SegCatalog == {Seg(<<>>), Seg(<<P0, P0>>), Seg(<<P0, P1, P2>>)}

GeneratedFiles ==
    {Gpx(t) : t \in SeqUpTo({Trk(s) : s \in SeqUpTo(SegCatalog, MaxSegments)}, MaxTracks)}

\* two tracks, three segments, one of them a single point
FileMulti == Gpx(<<Trk(<<Seg(<<P0, P1, P2>>), Seg(<<P1>>)>>), Trk(<<Seg(<<P1, P2>>)>>)>>)
\* one segment of 3456 m
FileWalk == Gpx(<<Trk(<<Seg(<<P1, P2>>)>>)>>)
\* one segment whose two points coincide
FileStill == Gpx(<<Trk(<<Seg(<<P0, P0>>)>>)>>)
\* a segment without points after a segment of 2592 m
FileEmptySeg == Gpx(<<Trk(<<Seg(<<P0, P1>>), Seg(<<>>)>>)>>)

RouteIds == {1, 2, 3}
RouteFile(id) == ("route" \o ToString(id)) \o ".gpx"

Folder(f1, f2, f3) == (RouteFile(1) :> f1) @@ (RouteFile(2) :> f2) @@ (RouteFile(3) :> f3)

\* the GPX folders of the model; a route without an entry has no file
GpxFolders ==
    { (RouteFile(1) :> FileMulti) @@ (RouteFile(3) :> FileWalk),
      (RouteFile(1) :> FileStill) @@ (RouteFile(2) :> FileWalk),
      Folder(FileWalk, Malformed, FileMulti),
      Folder(FileEmptySeg, FileStill, FileWalk),
      (RouteFile(2) :> FileEmptySeg) @@ (RouteFile(3) :> Malformed),
      << >> }

Dates == {"2024-01-01", "2024-02-29"}

\* the Comments column of a sheet: missing, blank cells, or text
CommentModes == {"none", "blank", "text"}

SheetRow(id, date, mode) ==
    LET base == ("GPX file ID" :> id) @@ ("Date (walk)" :> date)
    IN  CASE mode = "none"  -> base
          [] mode = "blank" -> base @@ ("Comments" :> "")
          [] OTHER          -> base @@ ("Comments" :> "Morning walk")

\* data frames of at most n rows; every row of a frame has the same columns
Dataframes(n, dates, modes) ==
    UNION {{[k \in 1..Len(s) |-> SheetRow(s[k][1], s[k][2], mode)] :
              s \in SeqUpTo(RouteIds \X dates, n)} : mode \in modes}

\* create_map is entered with a data frame and a GPX folder
InitCreateMap ==
    /\ gpx_files \in GpxFolders
    /\ folium_validates \in BOOLEAN
    /\ maps_dir_exists = TRUE
    /\ maps_dir = {}
    /\ now = 1
    /\ pc = "create_map"
    /\ df \in Dataframes(MaxRecords, Dates, CommentModes)
    /\ i = 1
    /\ walked_distance = 0
    /\ total_walked_distance = 0
    /\ m = NewMap
    /\ exc = ""
    /\ map_filename = ""
    /\ keep_latest = 0
    /\ result = NoResult
    /\ store_at_call = {}

NextCreateMap == CreateMapRow \/ CreateMapReturn

SpecCreateMap == InitCreateMap /\ [][NextCreateMap]_vars

\* create_map is entered with one row whose file is any generated file, or none
InitDistance ==
    /\ gpx_files \in {(RouteFile(1) :> f) : f \in GeneratedFiles \cup {Malformed}} \cup {<< >>}
    /\ folium_validates \in BOOLEAN
    /\ maps_dir_exists = TRUE
    /\ maps_dir = {}
    /\ now = 1
    /\ pc = "create_map"
    /\ df = <<SheetRow(1, "2024-01-01", "text")>>
    /\ i = 1
    /\ walked_distance = 0
    /\ total_walked_distance = 0
    /\ m = NewMap
    /\ exc = ""
    /\ map_filename = ""
    /\ keep_latest = 0
    /\ result = NoResult
    /\ store_at_call = {}

SpecDistance == InitDistance /\ [][NextCreateMap]_vars

(***************************************************************************)
(* Inputs: map stores and sheets.                                          *)
(***************************************************************************)
Artifact(stem, t) == [name |-> [stem |-> stem, ext |-> ".html"], ctime |-> t, kind |-> "file"]

\* a file that is no map
Notes(t) == [name |-> [stem |-> "notes", ext |-> ".txt"], ctime |-> t, kind |-> "file"]

\* a directory whose name ends in .html
ArchiveDir(t) == [name |-> [stem |-> "archive", ext |-> ".html"], ctime |-> t, kind |-> "dir"]

\* ctimes of k entries, oldest first: each entry is as old as the one before
\* it or one step newer (only order and ties of ctimes matter to the sort, and
\* the names carry no order of their own); at most MaxTie entries share a ctime
RECURSIVE CtimePatterns(_)
CtimePatterns(k) ==
    IF k = 0 THEN {<<>>}
    ELSE IF k = 1 THEN {<<1>>}
    ELSE {t \in UNION {{Append(s, s[k - 1]), Append(s, s[k - 1] + 1)} :
                          s \in CtimePatterns(k - 1)} :
             k > MaxTie => t[k] > t[k - MaxTie]}

ArtifactsOf(ctimes) == {Artifact("map" \o ToString(j), ctimes[j]) : j \in 1..Len(ctimes)}

GeneratedStores ==
    {ArtifactsOf(s) \cup extra :
        s \in UNION {CtimePatterns(k) : k \in 0..MaxArtifacts},
        extra \in {{}, {Notes(0)}, {ArchiveDir(0)}}}

KeepValues == {0, 2, KeepLatestDefault, MaxArtifacts}

\* cleanup_old_maps is entered with a map store and a keep count
InitCleanup ==
    /\ gpx_files = << >>
    /\ folium_validates = TRUE
    /\ \/ maps_dir_exists = TRUE /\ maps_dir \in GeneratedStores
       \/ maps_dir_exists = FALSE /\ maps_dir = {}
    /\ now = 1
    /\ pc = "cleanup"
    /\ df = <<>>
    /\ i = 0
    /\ walked_distance = 0
    /\ total_walked_distance = 0
    /\ m = NewMap
    /\ exc = ""
    /\ map_filename = ""
    /\ keep_latest \in KeepValues
    /\ result = NoResult
    /\ store_at_call = maps_dir

SpecCleanup == InitCleanup /\ [][CleanupOldMaps]_vars

\* the map stores generate_map starts from; what is there was created before
InitialStores ==
    { {},
      {Artifact("gpx_map_a", -4), Artifact("gpx_map_b", -3), Artifact("gpx_map_c", -2),
       Artifact("gpx_map_d", -1), Notes(-5)},
      {ArchiveDir(-5), Artifact("gpx_map_a", -4), Artifact("gpx_map_b", -3),
       Artifact("gpx_map_c", -2), Artifact("gpx_map_d", -1)},
      {Artifact("gpx_map_a", -1), Artifact("gpx_map_b", -1), Artifact("gpx_map_c", -1),
       Artifact("gpx_map_d", -1), Artifact("gpx_map_e", -1)} }

\* what get_spreadsheet_data gives: a data frame, or an error of the sheet client
SheetOutcomes ==
    {[raised |-> FALSE, exc |-> "", df |-> d] :
        d \in Dataframes(MaxSheetRows, {"2024-01-01"}, {"text"})}
    \cup {[raised |-> TRUE, exc |-> "APIError", df |-> <<>>]}

Init ==
    /\ gpx_files = Folder(FileEmptySeg, Malformed, FileWalk)
    /\ folium_validates \in BOOLEAN
    /\ \/ maps_dir_exists = TRUE /\ maps_dir \in InitialStores
       \/ maps_dir_exists = FALSE /\ maps_dir = {}
    /\ now = 1
    /\ pc = "idle"
    /\ df = <<>>
    /\ i = 0
    /\ walked_distance = 0
    /\ total_walked_distance = 0
    /\ m = [location |-> <<>>, zoom_start |-> 0, tiles |-> "", children |-> <<>>]
    /\ exc = ""
    /\ map_filename = ""
    /\ keep_latest = 0
    /\ result = NoResult
    /\ store_at_call = maps_dir

Next ==
    \/ GenerateMapCall(SheetOutcomes)
    \/ CreateMapRow
    \/ CreateMapReturn
    \/ SaveMap
    \/ CleanupOldMaps
    \/ GenerateMapReturn
    \/ GenerateMapExcept
    \/ Tick

Spec == Init /\ [][Next]_vars

(***************************************************************************)
(* Properties of create_map and compute_gpx_distance.                      *)
(***************************************************************************)
\* the rows the loop has gone through
Processed == SubSeq(df, 1, i - 1)

InCreateMap == pc \in {"create_map", "save"}

FileExists(row) == FilePath(row) \in DOMAIN gpx_files

FileOf(row) == gpx_files[FilePath(row)]

DistanceOfRow(row) == ComputeGpxDistance(FilePath(row), gpx_files).value

RECURSIVE SumOfDistances(_)
SumOfDistances(rows) ==
    IF rows = <<>> THEN 0 ELSE DistanceOfRow(Head(rows)) + SumOfDistances(Tail(rows))

\* all segments of a document, track after track
RECURSIVE FlatSegments(_)
FlatSegments(tracks) ==
    IF tracks = <<>> THEN <<>> ELSE Head(tracks).segments \o FlatSegments(Tail(tracks))

Coordinates(segment) ==
    [k \in 1..Len(segment.points) |->
        <<segment.points[k].latitude, segment.points[k].longitude>>]

\* the sum of a function over its finite domain
RECURSIVE SumFn(_)
SumFn(f) ==
    IF DOMAIN f = {} THEN 0
    ELSE LET x == CHOOSE x \in DOMAIN f : TRUE
         IN  f[x] + SumFn([y \in DOMAIN f \ {x} |-> f[y]])

\* metres between the consecutive points of a segment
MetresOfSegment(segment) ==
    SumFn([k \in 1..(Len(segment.points) - 1) |->
              Distance2d(segment.points[k], segment.points[k + 1])])

\* metres of all segments of all tracks
MetresOfFile(tracks) ==
    LET segs == FlatSegments(tracks)
    IN  SumFn([k \in 1..Len(segs) |-> MetresOfSegment(segs[k])])

\* the point lists one polyline per segment would carry, for rows whose file exists
RECURSIVE ExpectedLocations(_)
ExpectedLocations(rows) ==
    IF rows = <<>> THEN <<>>
    ELSE LET row == Head(rows)
             segs == IF FileExists(row) THEN FlatSegments(FileOf(row).tracks) ELSE <<>>
         IN  [k \in 1..Len(segs) |-> Coordinates(segs[k])]
             \o ExpectedLocations(Tail(rows))

\* the tooltips: the row's whole-file distance on each of its polylines
RECURSIVE ExpectedTooltips(_)
ExpectedTooltips(rows) ==
    IF rows = <<>> THEN <<>>
    ELSE LET row == Head(rows)
             segs == IF FileExists(row) THEN FlatSegments(FileOf(row).tracks) ELSE <<>>
             comment == IF "Comments" \in DOMAIN row THEN row["Comments"] ELSE ""
             text == row["Date (walk)"] \o ": " \o comment \o " ("
                         \o Format2f(DistanceOfRow(row)) \o " km)"
         IN  [k \in 1..Len(segs) |-> text] \o ExpectedTooltips(Tail(rows))

LocationsOf(children) == [k \in 1..Len(children) |-> children[k].locations]

TooltipsOf(children) == [k \in 1..Len(children) |-> children[k].tooltip]

\* C1: the total create_map returns is the sum of compute_gpx_distance over
\* the rows of the data frame, each row counted as often as it occurs, whatever
\* the number of polylines; it holds of the rows gone through at every point
\* of the loop
C1_TotalIsSumOfParts ==
    InCreateMap => total_walked_distance = SumOfDistances(Processed)

\* create_map has returned for three rows, two of them the same existing
\* route and one without a file, with more polylines than rows
C1_Witness ==
    /\ pc = "save"
    /\ Len(df) = 3
    /\ \E a, b \in 1..3 : a # b /\ FilePath(df[a]) = FilePath(df[b]) /\ FileExists(df[a])
    /\ \E c \in 1..3 : ~FileExists(df[c])
    /\ total_walked_distance > 0
    /\ Len(m.children) > Len(df)

\* C2: a row whose GPX file is absent adds no polyline and nothing to the
\* total, does not raise, and the rows after it are processed: the map and
\* the total are those of the rows whose file exists, and with three rows of
\* which the second has no file they are those of row 1 then row 3
C2_MissingFilesAreSkipped ==
    /\ InCreateMap =>
          LET present == SelectSeq(Processed, LAMBDA row : FileExists(row))
          IN  /\ LocationsOf(m.children) = ExpectedLocations(present)
              /\ total_walked_distance = SumOfDistances(present)
    /\ pc = "except" => FileExists(df[i])
    /\ (pc = "save" /\ Len(df) = 3 /\ FileExists(df[1]) /\ ~FileExists(df[2])
            /\ FileExists(df[3])) =>
          /\ LocationsOf(m.children) =
                 ExpectedLocations(<<df[1]>>) \o ExpectedLocations(<<df[3]>>)
          /\ total_walked_distance = DistanceOfRow(df[1]) + 0 + DistanceOfRow(df[3])

\* create_map has returned for three rows, the second without a file, the
\* first and third with polylines and a distance
C2_Witness ==
    /\ pc = "save"
    /\ Len(df) = 3
    /\ FileExists(df[1]) /\ ~FileExists(df[2]) /\ FileExists(df[3])
    /\ DistanceOfRow(df[1]) > 0 /\ DistanceOfRow(df[3]) > 0
    /\ FilePath(df[1]) # FilePath(df[3])
    /\ Len(m.children) >= 2

\* compute_gpx_distance has returned for the one row of the data frame
RowComputed == (InCreateMap /\ i = 2) \/ (pc = "except" /\ exc = "ValueError")

\* C3: compute_gpx_distance returns 0.0 for a path without a file; for a
\* well-formed file it returns the metres of all segments of all tracks
\* (consecutive points, summed) divided by 1000, which is never negative and is
\* 0.0 for one segment of two coinciding points
C3_DistanceIsSumOverSegments ==
    RowComputed =>
        /\ walked_distance >= 0
        /\ ~FileExists(df[1]) => walked_distance = 0
        /\ FileExists(df[1]) =>
              walked_distance * 1000 = MetresOfFile(FileOf(df[1]).tracks)
        /\ (FileExists(df[1]) /\ FileOf(df[1]) = FileStill) => walked_distance = 0

\* a file of two tracks, each with a segment of some length, has been measured
C3_Witness ==
    /\ RowComputed
    /\ FileExists(df[1])
    /\ Len(FileOf(df[1]).tracks) = 2
    /\ \A t \in 1..2 : MetresOfFile(<<FileOf(df[1]).tracks[t]>>) > 0
    /\ walked_distance > 0

\* C4: one polyline per segment of every existing file, segments of zero or
\* one point included, in row, track and segment order, each with the
\* segment's points in order; so only a malformed file stops the loop
C4_OnePolylinePerSegment ==
    /\ InCreateMap => LocationsOf(m.children) = ExpectedLocations(Processed)
    /\ pc = "except" => (FileExists(df[i]) /\ ~FileOf(df[i]).wellformed)

\* C5: every polyline of a row carries "<date>: <comment> (<d> km)" with d the
\* row's whole-file distance to two decimals, the same on all polylines of the
\* row, and an empty comment when the row has no Comments field; 3.456 km on
\* 2024-01-01 with comment Morning walk reads "2024-01-01: Morning walk (3.46 km)"
C5_TooltipShowsRowDistance ==
    InCreateMap =>
        /\ TooltipsOf(m.children) = ExpectedTooltips(Processed)
        /\ (i > 1 /\ df[1]["Date (walk)"] = "2024-01-01"
               /\ RowGet(df[1], "Comments", "") = "Morning walk"
               /\ DistanceOfRow(df[1]) = 3456 /\ FileExists(df[1])) =>
              m.children[1].tooltip = "2024-01-01: Morning walk (3.46 km)"
        /\ (i > 1 /\ "Comments" \notin DOMAIN df[1] /\ FileExists(df[1])
               /\ DistanceOfRow(df[1]) = 3456 /\ df[1]["Date (walk)"] = "2024-01-01") =>
              m.children[1].tooltip = "2024-01-01:  (3.46 km)"

\* a row of several segments of different lengths has been drawn, and a row
\* without a Comments field
C5_Witness ==
    /\ pc = "save"
    /\ Len(df) = 2
    /\ FileExists(df[1]) /\ FileOf(df[1]) = FileMulti
    /\ FileExists(df[2]) /\ FileOf(df[2]) = FileWalk
    /\ "Comments" \notin DOMAIN df[1]
    /\ Len(m.children) = 4
    /\ m.children[4].tooltip = "2024-01-01:  (3.46 km)"

\* the loop takes row i
RowStep == pc = "create_map" /\ i <= Len(df) /\ (i' # i \/ pc' # pc)

\* what one parse of the row's file gives: the distance and the polylines
SingleParse(row) ==
    IF ~FileExists(row)
    THEN [pc |-> "create_map", children |-> m.children, total |-> total_walked_distance]
    ELSE IF ~FileOf(row).wellformed
    THEN [pc |-> "except", children |-> m.children, total |-> total_walked_distance]
    ELSE LET segs == FlatSegments(FileOf(row).tracks)
             km == MetresOfFile(FileOf(row).tracks) \div 1000
             text == Tooltip(row["Date (walk)"], RowGet(row, "Comments", ""), km)
             empty == {k \in 1..Len(segs) : segs[k].points = <<>>}
             stop == IF folium_validates /\ empty # {}
                     THEN (CHOOSE k \in empty : \A j \in empty : k <= j) - 1
                     ELSE Len(segs)
         IN  [pc |-> IF stop < Len(segs) THEN "except" ELSE "create_map",
              children |-> m.children \o
                  [k \in 1..stop |-> PolyLine(Coordinates(segs[k]), text)],
              total |-> total_walked_distance + km]

TwoPassIsSingleParse ==
    LET one == SingleParse(df[i])
    IN  /\ pc' = one.pc
        /\ m'.children = one.children
        /\ total_walked_distance' = one.total

\* C8 as stated: the two passes over a row's file give what a single parse
\* gives, and no row yields polylines with a zero distance, or a distance
\* that is not zero without polylines
C8_NoPolylinesWithZeroDistance ==
    [][RowStep =>
          /\ TwoPassIsSingleParse
          /\ pc' = "create_map" =>
                /\ Len(m'.children) > Len(m.children) => walked_distance' # 0
                /\ walked_distance' # 0 => Len(m'.children) > Len(m.children)]_vars

\* C8, amended: the two passes over a row's file give what a single parse
\* gives; no row yields polylines while its file is absent, or a distance that
\* is not zero without polylines (a file of zero length has polylines with a
\* zero distance)
C8_TwoPassIsSingleParse ==
    [][RowStep =>
          /\ TwoPassIsSingleParse
          /\ pc' = "create_map" =>
                /\ Len(m'.children) > Len(m.children) => FileExists(df[i])
                /\ walked_distance' # 0 => Len(m'.children) > Len(m.children)]_vars

\* three rows have gone through both passes: a file of zero length that has
\* its polyline with a zero distance, a route without a file, and a walk
C8_Witness ==
    /\ pc = "save"
    /\ Len(df) = 3
    /\ FileExists(df[1]) /\ FileOf(df[1]) = FileStill
    /\ ~FileExists(df[2])
    /\ FileExists(df[3]) /\ FileOf(df[3]) = FileWalk
    /\ Len(m.children) = 2
    /\ m.children[1].tooltip = "2024-01-01: Morning walk (0.00 km)"
    /\ total_walked_distance = 3456

(***************************************************************************)
(* Properties of cleanup_old_maps and generate_map.                        *)
(***************************************************************************)
HtmlEntries(dir) == {e \in dir : e.name.ext = ".html"}

\* every .html entry is a map file (a regular file)
OnlyArtifacts(dir) == \A e \in HtmlEntries(dir) : e.kind = "file"

\* C6: run on a store of k .html artifacts with keep count N, cleanup_old_maps
\* deletes max(0, k - N) of them, none newer than one it leaves, and touches
\* nothing else: the N newest and every other file stay as they were; with 7
\* artifacts and N = 5 the 2 oldest go
C6_CleanupKeepsNewest ==
    (pc \in {"return", "except"} /\ maps_dir_exists /\ OnlyArtifacts(store_at_call)) =>
        LET k == Cardinality(HtmlEntries(store_at_call))
            deleted == store_at_call \ maps_dir
        IN  /\ pc = "return"
            /\ maps_dir \subseteq store_at_call
            /\ deleted \subseteq HtmlEntries(store_at_call)
            /\ Cardinality(deleted) = IF k > keep_latest THEN k - keep_latest ELSE 0
            /\ \A d \in deleted : \A e \in HtmlEntries(maps_dir) : d.ctime <= e.ctime

\* 7 artifacts of 7 different ctimes and a notes file, keep count 5: the two
\* oldest artifacts are gone, the notes file is there
C6_Witness ==
    /\ pc = "return"
    /\ keep_latest = 5
    /\ Cardinality(HtmlEntries(store_at_call)) = 7
    /\ Cardinality({e.ctime : e \in HtmlEntries(store_at_call)}) = 7
    /\ Notes(0) \in maps_dir
    /\ {e.ctime : e \in store_at_call \ maps_dir} = {1, 2}

\* C7: a malformed GPX file is not recovered: the row that meets it raises the
\* parse error out of create_map, with no row after it processed and no map
\* returned, and generate_map returns success = False with the store as it was
C7_ParseErrorPropagates ==
    [][/\ (RowStep /\ FileExists(df[i]) /\ ~FileOf(df[i]).wellformed) =>
             /\ pc' = "except"
             /\ exc' = "GPXXMLSyntaxException"
             /\ i' = i
             /\ total_walked_distance' = total_walked_distance
       /\ (pc = "except" /\ exc = "GPXXMLSyntaxException") =>
             \/ UNCHANGED <<pc, exc, i, df, m, maps_dir, result>>
             \/ /\ pc' = "idle"
                /\ result' = Failure("GPXXMLSyntaxException")
                /\ maps_dir' = maps_dir
                /\ maps_dir' = store_at_call]_vars

\* the parse error of a row is in flight with another row left
C7_Witness ==
    /\ pc = "except"
    /\ exc = "GPXXMLSyntaxException"
    /\ i < Len(df)
    /\ FileExists(df[i + 1])

\* generate_map has returned the parse error as a failure
C7_Returned ==
    /\ pc = "idle"
    /\ result = Failure("GPXXMLSyntaxException")
    /\ maps_dir = store_at_call

\* C9: when generate_map returns success = True, the artifact it names is in
\* the store (the retention step of the invocation has not deleted it) and
\* the store holds at most 5 .html entries
C9_ReturnedArtifactExists ==
    /\ pc = "return" => \E e \in maps_dir : e.name = map_filename /\ e.kind = "file"
    /\ (pc = "idle" /\ result.success) =>
          /\ \E e \in maps_dir : FileName(e.name) = result.map_file
          /\ Cardinality(HtmlEntries(maps_dir)) <= 5

\* a successful invocation whose retention step deleted an older artifact
C9_Witness ==
    /\ pc = "idle"
    /\ result.success
    /\ Cardinality(HtmlEntries(maps_dir)) = 5
    /\ Cardinality(HtmlEntries(store_at_call)) = 5
    /\ maps_dir # store_at_call

\* C10: when generate_map returns success = False, the map store is what it
\* was when the invocation began
C10_FailureLeavesStoreUnchanged ==
    (pc = "idle" /\ result.returned = "dict" /\ ~result.success) =>
        maps_dir = store_at_call

====
